---- MODULE Spec2Model ----
(***************************************************************************)
(* Model of ReadFASTbinary (Release/PythonFunctions/ReadFASTbinary.py):    *)
(* the reader of FAST binary output files, with its buffered and its       *)
(* unbuffered payload paths.                                               *)
(*                                                                         *)
(* Floating point values are modelled as extended rationals <<n, d>>:      *)
(* d > 0 is the rational n/d in lowest terms, <<0,0>> is not-a-number,     *)
(* <<1,0>> and <<-1,0>> are the infinities.  Rounding is not modelled.     *)
(* Strings are sequences of character codes.                               *)
(***************************************************************************)
EXTENDS Integers, Sequences, FiniteSets, TLC

(* ------------------------------ bounds -------------------------------- *)
MaxChans == 2
MaxSteps == 3

(* ------------------------- program constants --------------------------- *)
FileFmtID_WithTime == 1
FileFmtID_WithoutTime == 2
FileFmtID_NoCompressWithoutTime == 3
FileFmtID_ChanLen_In == 4
DefaultLenName == 10
GoodBufferSize == 4096 * 40
nOff == 1

SupportedFileIDs ==
  {FileFmtID_WithTime, FileFmtID_WithoutTime,
   FileFmtID_NoCompressWithoutTime, FileFmtID_ChanLen_In}

(* ----------------------- floating point values ------------------------- *)
Abs(x) == IF x < 0 THEN -x ELSE x
Sign(x) == IF x < 0 THEN -1 ELSE IF x > 0 THEN 1 ELSE 0
Min(a, b) == IF a < b THEN a ELSE b

RECURSIVE GCD(_, _)
GCD(a, b) == IF b = 0 THEN a ELSE GCD(b, a % b)

Norm(n, d) ==
  IF d = 0 THEN <<Sign(n), 0>>
  ELSE LET s == IF d < 0 THEN -1 ELSE 1
           g == GCD(Abs(n), Abs(d))
       IN  <<(s * n) \div g, (s * d) \div g>>

R(n, d) == Norm(n, d)
I(n) == <<n, 1>>
NaN == <<0, 0>>
isnan(x) == x = NaN
IsInf(x) == x[2] = 0 /\ x[1] # 0

FNeg(x) == <<-x[1], x[2]>>

FAdd(a, b) ==
  IF isnan(a) \/ isnan(b) THEN NaN
  ELSE IF IsInf(a) THEN (IF IsInf(b) /\ b # a THEN NaN ELSE a)
  ELSE IF IsInf(b) THEN b
  ELSE Norm(a[1] * b[2] + b[1] * a[2], a[2] * b[2])

FSub(a, b) == FAdd(a, FNeg(b))

FMul(a, b) ==
  IF isnan(a) \/ isnan(b) THEN NaN
  ELSE Norm(a[1] * b[1], a[2] * b[2])

FDiv(a, b) ==
  IF isnan(a) \/ isnan(b) THEN NaN
  ELSE IF IsInf(a) THEN (IF IsInf(b) THEN NaN
                         ELSE <<a[1] * (IF b[1] < 0 THEN -1 ELSE 1), 0>>)
  ELSE Norm(a[1] * b[2], a[2] * b[1])

FLe(a, b) ==
  IF isnan(a) \/ isnan(b) THEN FALSE
  ELSE IF a[2] = 0 /\ b[2] = 0 THEN a[1] <= b[1]
  ELSE a[1] * b[2] <= b[1] * a[2]

(* ------------------------------ arrays --------------------------------- *)
(* A numpy array or a tuple: its shape (one or two dimensions) and its     *)
(* elements, indexed from 0.                                               *)
Idx(shape) ==
  IF Len(shape) = 1 THEN {<<i>> : i \in 0 .. shape[1] - 1}
  ELSE (0 .. shape[1] - 1) \X (0 .. shape[2] - 1)

(* the array of the n elements f[0] .. f[n-1] *)
Arr1(n, f) == [shape |-> <<n>>, v |-> [ix \in Idx(<<n>>) |-> f[ix[1]]]]
(* the array of nr rows and nc columns of the elements f[<<r, c>>] *)
Arr2(nr, nc, f) ==
  [shape |-> <<nr, nc>>, v |-> [ix \in Idx(<<nr, nc>>) |-> f[ix]]]

NoArr == [shape |-> <<0>>, v |-> <<>>]

zeros(nr, nc) == Arr2(nr, nc, [ix \in Idx(<<nr, nc>>) |-> I(0)])
ones(nr, nc) == Arr2(nr, nc, [ix \in Idx(<<nr, nc>>) |-> I(1)])
arange(n) == Arr1(n, [i \in 0 .. n - 1 |-> I(i)])
At1(a, i) == a.v[<<i>>]
At2(a, i, j) == a.v[<<i, j>>]

(* the shape as two dimensions, a leading 1 added to a 1-D shape *)
Dim2(shape) == IF Len(shape) = 1 THEN <<1, shape[1]>> ELSE shape
DimOk(x, y) == x = y \/ x = 1 \/ y = 1
DimOut(x, y) == IF x = 1 THEN y ELSE x
Broadcastable(a, b) ==
  /\ DimOk(Dim2(a.shape)[1], Dim2(b.shape)[1])
  /\ DimOk(Dim2(a.shape)[2], Dim2(b.shape)[2])
BroadcastShape(a, b) ==
  LET sa == Dim2(a.shape)
      sb == Dim2(b.shape)
      s2 == <<DimOut(sa[1], sb[1]), DimOut(sa[2], sb[2])>>
  IN  IF Len(a.shape) = 1 /\ Len(b.shape) = 1 THEN <<s2[2]>> ELSE s2
(* the element of a that takes part at index ix of the broadcast result *)
Pick(a, ix) ==
  LET i2 == IF Len(ix) = 1 THEN <<0, ix[1]>> ELSE ix
      sa == Dim2(a.shape)
      r == IF sa[1] = 1 THEN 0 ELSE i2[1]
      c == IF sa[2] = 1 THEN 0 ELSE i2[2]
  IN  IF Len(a.shape) = 1 THEN a.v[<<c>>] ELSE a.v[<<r, c>>]
Apply(op, x, y) ==
  CASE op = "+" -> FAdd(x, y)
    [] op = "-" -> FSub(x, y)
    [] op = "*" -> FMul(x, y)
    [] op = "/" -> FDiv(x, y)
Elementwise(op, a, b) ==
  LET s == BroadcastShape(a, b)
  IN  [shape |-> s, v |-> [ix \in Idx(s) |-> Apply(op, Pick(a, ix), Pick(b, ix))]]

(* ------------------------------ strings -------------------------------- *)
(* str.isspace on the characters chr(0..255) *)
IsSpace(c) == c \in {9, 10, 11, 12, 13, 28, 29, 30, 31, 32, 133, 160}

RECURSIVE lstrip(_)
lstrip(s) ==
  IF s = <<>> THEN <<>>
  ELSE IF IsSpace(Head(s)) THEN lstrip(Tail(s)) ELSE s
RECURSIVE rstrip(_)
rstrip(s) ==
  IF s = <<>> THEN <<>>
  ELSE IF IsSpace(s[Len(s)]) THEN rstrip(SubSeq(s, 1, Len(s) - 1)) ELSE s
strip(s) == rstrip(lstrip(s))
(* s[1:-1] *)
Slice1m1(s) == IF Len(s) <= 2 THEN <<>> ELSE SubSeq(s, 2, Len(s) - 1)

(* --------------------------- the input file ---------------------------- *)
(* fread's table of element types: bytes per element *)
SizeOf(type) ==
  CASE type = "uint8" -> 1
    [] type = "int16" -> 2
    [] type = "int32" -> 4
    [] type = "float32" -> 4
    [] type = "float64" -> 8

(* only the first byte decoded *)
DecodeInt16_LowByte(bytes) == bytes[1]
(* struct's 'h': two bytes, low byte first, two's complement *)
DecodeInt16(bytes) ==
  LET u == bytes[1] + 256 * bytes[2]
  IN  IF u >= 32768 THEN u - 65536 ELSE u

(* the header's two float64 values: (TimeScl, TimeOff) or (TimeOut1, TimeIncr) *)
TimeHdrs ==
  << <<I(0), R(1, 80)>>, <<I(2), I(100)>>, <<I(3), I(-1)>> >>
(* per-channel (ColScl, ColOff) *)
ChanPool ==
  << <<I(2), I(100)>>, <<NaN, NaN>>, <<R(1, 2), I(-3)>>,
     <<NaN, I(0)>>, <<I(4), NaN>> >>
(* texts of the fixed-width fields, before padding: "Time", " m", "", NUL "a" *)
NamePool == << <<84, 105, 109, 101>>, <<32, 109>>, <<>>, <<0, 97>> >>
(* "(s)", " (m)", "m", "", "( )" *)
UnitPool ==
  << <<40, 115, 41>>, <<32, 40, 109, 41>>, <<109>>, <<>>, <<40, 32, 41>> >>
DescPool == << <<>>, <<32, 100, 9>> >>
LenNames == {2, 5}
Cuts == {1, 2, 5, 40}
BadTags == { <<0, 0>>, <<5, 0>>, <<1, 1>>, <<255, 255>> }
GoodTags == { <<id, 0>> : id \in SupportedFileIDs }

filename == [dir |-> "IEA15MW_03", stem |-> "IEA-15-240-RWT-Monopile", ext |-> ".outb"]

(* a field of w bytes holding text, padded with blanks *)
Field(text, w) == [k \in 1 .. w |-> IF k <= Len(text) THEN text[k] ELSE 32]
Rot(pool, seed, k) == pool[((seed + k) % Len(pool)) + 1]

FileFmt(f) == DecodeInt16(f.tag)
FileLenName(f) ==
  IF FileFmt(f) = FileFmtID_ChanLen_In THEN f.lenName ELSE DefaultLenName
FileDesc(f) == DescPool[f.descSel]
FileChanName(f, k) == Field(Rot(NamePool, f.nameSeed, k), FileLenName(f))
FileChanUnit(f, k) == Field(Rot(UnitPool, f.unitSeed, k), FileLenName(f))
FileColScl(f, c) == Rot(ChanPool, f.chanSeed, c)[1]
FileColOff(f, c) == Rot(ChanPool, f.chanSeed, c)[2]
FilePackedTime(f, i) ==
  IF f.packedPat = 0 THEN 100 + 10 * i ELSE 100 + 10 * ((2 * i) % 3)
FilePayloadType(f) ==
  IF FileFmt(f) = FileFmtID_NoCompressWithoutTime THEN "float64" ELSE "int16"
(* the payload element at flat index k *)
FileStored(f, k) ==
  IF FilePayloadType(f) = "float64" THEN R(2 * k + 1, 2) ELSE I(1000 - 7 * k)

(* byte offsets of the file's regions *)
HeaderBytes(f) ==
  2 + (IF FileFmt(f) = FileFmtID_ChanLen_In THEN 2 ELSE 0) + 4 + 4 + 8 + 8
  + (IF FileFmt(f) = FileFmtID_NoCompressWithoutTime THEN 0
     ELSE 2 * 4 * f.nChan)
  + 4 + Len(FileDesc(f)) + 2 * (f.nChan + 1) * FileLenName(f)
PackedTimeBytes(f) ==
  IF FileFmt(f) = FileFmtID_WithTime THEN 4 * f.nSteps ELSE 0
PayloadStart(f) == HeaderBytes(f) + PackedTimeBytes(f)
PayloadBytes(f) == f.nSteps * f.nChan * SizeOf(FilePayloadType(f))
FullBytes(f) == PayloadStart(f) + PayloadBytes(f)
(* bytes the file holds: the full layout less the bytes cut off its end *)
FileSize(f) == IF f.cut >= FullBytes(f) THEN 0 ELSE FullBytes(f) - f.cut

BaseFile ==
  [tag |-> <<2, 0>>, lenName |-> DefaultLenName, nChan |-> 1, nSteps |-> 1,
   timeSel |-> 1, chanSeed |-> 0, descSel |-> 2, nameSeed |-> 0,
   unitSeed |-> 0, packedPat |-> 0, cut |-> 0]

(* complete files: every count, time header, channel scaling and time column *)
NumericFiles ==
  { [BaseFile EXCEPT !.tag = t, !.nChan = c, !.nSteps = n, !.timeSel = ts,
                     !.chanSeed = cs, !.packedPat = pp] :
      t \in GoodTags, c \in 0 .. MaxChans, n \in 0 .. MaxSteps,
      ts \in 1 .. Len(TimeHdrs),
      cs \in 0 .. Len(ChanPool) - 1, pp \in 0 .. 1 }
(* only the fields the format reads vary *)
Relevant(f) ==
  /\ FileFmt(f) = FileFmtID_NoCompressWithoutTime => f.chanSeed = 0
  /\ FileFmt(f) # FileFmtID_WithTime => f.packedPat = 0
(* files cut short *)
TruncatedFiles ==
  { [BaseFile EXCEPT !.tag = t, !.nChan = c, !.nSteps = n, !.cut = k] :
      t \in GoodTags, c \in 0 .. MaxChans, n \in 0 .. MaxSteps, k \in Cuts }
(* complete files: every name, unit, description and name length *)
TextFiles ==
  { [BaseFile EXCEPT !.tag = t, !.lenName = w, !.nChan = c, !.descSel = d,
                     !.nameSeed = ns, !.unitSeed = us] :
      t \in { <<FileFmtID_WithoutTime, 0>>, <<FileFmtID_ChanLen_In, 0>> },
      w \in LenNames, c \in 0 .. MaxChans, d \in 1 .. Len(DescPool),
      ns \in 0 .. Len(NamePool) - 1, us \in 0 .. Len(UnitPool) - 1 }
TextRelevant(f) ==
  FileFmt(f) # FileFmtID_ChanLen_In => f.lenName = 2
(* files of another kind *)
ForeignFiles == { [BaseFile EXCEPT !.tag = t] : t \in BadTags }

Files ==
  {f \in NumericFiles : Relevant(f)} \cup TruncatedFiles
  \cup {f \in TextFiles : TextRelevant(f)} \cup ForeignFiles

(* ------------------------------- state --------------------------------- *)
VARIABLES
  file,        \* the file at filename
  use_buffer,  \* the argument of the call in progress
  pc,          \* where the call is
  fid,         \* the file object: open or not, and its position in bytes
  hdr,         \* the header locals, FileID .. ChanUnit
  tbl,         \* PackedTime, data, time and the locals of the buffered loop
  err,         \* the exception being raised
  ret,         \* what the call returned
  outcome,     \* per use_buffer: how the call made with it ended
  log          \* the fread calls made, in order

vars == <<file, use_buffer, pc, fid, hdr, tbl, err, ret, outcome, log>>

NoErr == [type |-> "none", text |-> "", args |-> <<>>]
struct_error == [type |-> "struct.error", text |-> "unpack requires a buffer", args |-> <<>>]
ZeroDivisionError == [type |-> "ZeroDivisionError", text |-> "division by zero", args |-> <<>>]
ValueError == [type |-> "ValueError", text |-> "shapes", args |-> <<>>]
TypeError == [type |-> "TypeError", text |-> "not all arguments converted during string formatting", args |-> <<>>]
(* text % args, text holding nspec conversions *)
Format(text, nspec, args) ==
  IF Len(args) = nspec
  THEN [type |-> "Exception", text |-> text, args |-> args]
  ELSE TypeError

NoInfo ==
  [name |-> "", description |-> <<>>, fileID |-> 0,
   attribute_names |-> <<>>, attribute_units |-> <<>>]
NoRet == [data |-> NoArr, info |-> NoInfo]
NoOutcome == [status |-> "none", data |-> NoArr, info |-> NoInfo, err |-> NoErr]

NoHdr ==
  [FileID |-> 0, LenName |-> 0, NumOutChans |-> 0, NT |-> 0,
   TimeScl |-> NoArr, TimeOff |-> NoArr, TimeOut1 |-> NoArr, TimeIncr |-> NoArr,
   ColScl |-> NoArr, ColOff |-> NoArr, DescStr |-> <<>>,
   ChanName |-> <<>>, ChanUnit |-> <<>>]
NoTbl ==
  [nPts |-> 0, PackedTime |-> NoArr, data |-> NoArr, time |-> NoArr,
   n |-> 0, nCols |-> 0, nbytes |-> 0, BufferSize |-> 0,
   nIntRead |-> 0, nLinesRead |-> 0]

Init ==
  /\ file \in Files
  /\ use_buffer = TRUE
  /\ pc = "idle"
  /\ fid = [open |-> FALSE, pos |-> 0]
  /\ hdr = NoHdr
  /\ tbl = NoTbl
  /\ err = NoErr
  /\ ret = NoRet
  /\ outcome = [b \in BOOLEAN |-> NoOutcome]
  /\ log = <<>>

(* ------------------------------- fread --------------------------------- *)
(* fid.read(nbytes * n) returns what is left when less is left, and        *)
(* struct.unpack raises unless it got exactly nbytes * n bytes.            *)
(* a short read taken for a whole one *)
Available_Unchecked(nb) == TRUE
Available(nb) == fid.pos + nb <= FileSize(file)
AfterRead(nb) == [fid EXCEPT !.pos = Min(fid.pos + nb, FileSize(file))]
Logged(name, type, n) == Append(log, [field |-> name, type |-> type, n |-> n])
(* an exception leaves the with block *)
Raise(e) == /\ err' = e
            /\ pc' = "unwind"

(* ReadFASTbinary(filename, use_buffer=b): open(filename, 'rb') *)
Call(b) ==
  /\ pc \in {"idle", "returned", "failed"}
  /\ outcome[b].status = "none"
  /\ use_buffer' = b
  /\ fid' = [open |-> TRUE, pos |-> 0]
  /\ hdr' = NoHdr
  /\ tbl' = NoTbl
  /\ err' = NoErr
  /\ ret' = NoRet
  /\ log' = <<>>
  /\ pc' = "FileID"
  /\ UNCHANGED <<file, outcome>>

ReadFileID ==
  /\ pc = "FileID"
  /\ fid' = AfterRead(SizeOf("int16"))
  /\ log' = Logged("FileID", "int16", 1)
  /\ IF ~Available(SizeOf("int16"))
     THEN Raise(struct_error) /\ UNCHANGED hdr
     ELSE LET FileID == DecodeInt16(file.tag)
          IN  /\ hdr' = [hdr EXCEPT !.FileID = FileID]
              /\ IF FileID \notin SupportedFileIDs
                 THEN Raise(Format("FileID not supported {}. Is it a FAST binary file?", 1, <<FileID>>))
                 ELSE pc' = "LenName" /\ UNCHANGED err
  /\ UNCHANGED <<file, use_buffer, tbl, ret, outcome>>

ReadLenName ==
  /\ pc = "LenName"
  /\ IF hdr.FileID = FileFmtID_ChanLen_In
     THEN /\ fid' = AfterRead(SizeOf("int16"))
          /\ log' = Logged("LenName", "int16", 1)
          /\ IF ~Available(SizeOf("int16"))
             THEN Raise(struct_error) /\ UNCHANGED hdr
             ELSE /\ hdr' = [hdr EXCEPT !.LenName = file.lenName]
                  /\ pc' = "Counts"
                  /\ UNCHANGED err
     ELSE /\ hdr' = [hdr EXCEPT !.LenName = DefaultLenName]
          /\ pc' = "Counts"
          /\ UNCHANGED <<fid, log, err>>
  /\ UNCHANGED <<file, use_buffer, tbl, ret, outcome>>

(* NumOutChans and NT *)
ReadCounts ==
  /\ pc = "Counts"
  /\ IF ~Available(SizeOf("int32"))
     THEN /\ fid' = AfterRead(SizeOf("int32"))
          /\ log' = Logged("NumOutChans", "int32", 1)
          /\ Raise(struct_error)
          /\ UNCHANGED hdr
     ELSE /\ fid' = AfterRead(2 * SizeOf("int32"))
          /\ log' = Append(Logged("NumOutChans", "int32", 1),
                           [field |-> "NT", type |-> "int32", n |-> 1])
          /\ IF ~Available(2 * SizeOf("int32"))
             THEN Raise(struct_error)
                  /\ hdr' = [hdr EXCEPT !.NumOutChans = file.nChan]
             ELSE /\ hdr' = [hdr EXCEPT !.NumOutChans = file.nChan,
                                        !.NT = file.nSteps]
                  /\ pc' = "TimeHdr"
                  /\ UNCHANGED err
  /\ UNCHANGED <<file, use_buffer, tbl, ret, outcome>>

(* TimeScl, TimeOff or TimeOut1, TimeIncr: each a tuple of one float64 *)
ReadTimeHdr ==
  /\ pc = "TimeHdr"
  /\ LET a == Arr1(1, [i \in {0} |-> TimeHdrs[file.timeSel][1]])
         b == Arr1(1, [i \in {0} |-> TimeHdrs[file.timeSel][2]])
         packed == hdr.FileID = FileFmtID_WithTime
         na == IF packed THEN "TimeScl" ELSE "TimeOut1"
         nb == IF packed THEN "TimeOff" ELSE "TimeIncr"
     IN  IF ~Available(SizeOf("float64"))
         THEN /\ fid' = AfterRead(SizeOf("float64"))
              /\ log' = Logged(na, "float64", 1)
              /\ Raise(struct_error)
              /\ UNCHANGED hdr
         ELSE /\ fid' = AfterRead(2 * SizeOf("float64"))
              /\ log' = Append(Logged(na, "float64", 1),
                               [field |-> nb, type |-> "float64", n |-> 1])
              /\ IF ~Available(2 * SizeOf("float64"))
                 THEN /\ Raise(struct_error)
                      /\ hdr' = IF packed THEN [hdr EXCEPT !.TimeScl = a]
                                ELSE [hdr EXCEPT !.TimeOut1 = a]
                 ELSE /\ hdr' = IF packed
                                THEN [hdr EXCEPT !.TimeScl = a, !.TimeOff = b]
                                ELSE [hdr EXCEPT !.TimeOut1 = a, !.TimeIncr = b]
                      /\ pc' = "ColScl"
                      /\ UNCHANGED err
  /\ UNCHANGED <<file, use_buffer, tbl, ret, outcome>>

(* ColScl and ColOff: synthesized as (NumOutChans, 1) arrays, or two tuples *)
ReadColScl ==
  /\ pc = "ColScl"
  /\ LET nb == hdr.NumOutChans * SizeOf("float32")
     IN  IF hdr.FileID = FileFmtID_NoCompressWithoutTime
         THEN /\ hdr' = [hdr EXCEPT !.ColScl = ones(hdr.NumOutChans, 1),
                                    !.ColOff = zeros(hdr.NumOutChans, 1)]
              /\ pc' = "Desc"
              /\ UNCHANGED <<fid, log, err>>
         ELSE IF ~Available(nb)
         THEN /\ fid' = AfterRead(nb)
              /\ log' = Logged("ColScl", "float32", hdr.NumOutChans)
              /\ Raise(struct_error)
              /\ UNCHANGED hdr
         ELSE /\ fid' = AfterRead(2 * nb)
              /\ log' = Append(Logged("ColScl", "float32", hdr.NumOutChans),
                               [field |-> "ColOff", type |-> "float32",
                                n |-> hdr.NumOutChans])
              /\ LET scl == Arr1(hdr.NumOutChans, [c \in 0 .. hdr.NumOutChans - 1 |-> FileColScl(file, c)])
                     off == Arr1(hdr.NumOutChans, [c \in 0 .. hdr.NumOutChans - 1 |-> FileColOff(file, c)])
                 IN  IF ~Available(2 * nb)
                     THEN /\ Raise(struct_error)
                          /\ hdr' = [hdr EXCEPT !.ColScl = scl]
                     ELSE /\ hdr' = [hdr EXCEPT !.ColScl = scl, !.ColOff = off]
                          /\ pc' = "Desc"
                          /\ UNCHANGED err
  /\ UNCHANGED <<file, use_buffer, tbl, ret, outcome>>

(* LenDesc, DescStrASCII, DescStr *)
ReadDesc ==
  /\ pc = "Desc"
  /\ LET LenDesc == Len(FileDesc(file))
     IN  IF ~Available(SizeOf("int32"))
         THEN /\ fid' = AfterRead(SizeOf("int32"))
              /\ log' = Logged("LenDesc", "int32", 1)
              /\ Raise(struct_error)
              /\ UNCHANGED hdr
         ELSE /\ fid' = AfterRead(SizeOf("int32") + LenDesc * SizeOf("uint8"))
              /\ log' = Append(Logged("LenDesc", "int32", 1),
                               [field |-> "DescStr", type |-> "uint8", n |-> LenDesc])
              /\ IF ~Available(SizeOf("int32") + LenDesc * SizeOf("uint8"))
                 THEN Raise(struct_error) /\ UNCHANGED hdr
                 ELSE /\ hdr' = [hdr EXCEPT !.DescStr = strip(FileDesc(file))]
                      /\ pc' = "ChanName"
                      /\ UNCHANGED err
  /\ UNCHANGED <<file, use_buffer, tbl, ret, outcome>>

(* "".join(map(chr, ChanNameASCII)).strip() *)
NameText(field) == strip(field)
(* sliced before it is stripped *)
UnitText_SliceFirst(field) == strip(Slice1m1(field))
(* "".join(map(chr, ChanUnitASCII)).strip()[1:-1] *)
UnitText(field) == Slice1m1(strip(field))

(* how many of the count fields of w bytes each are whole in what is left *)
WholeFields(count, w) ==
  IF w = 0 THEN count ELSE Min(count, (FileSize(file) - fid.pos) \div w)
RECURSIVE LoggedTimes(_, _, _, _)
LoggedTimes(l, name, w, times) ==
  IF times = 0 THEN l
  ELSE LoggedTimes(Append(l, [field |-> name, type |-> "uint8", n |-> w]),
                   name, w, times - 1)

(* for iChan in range(NumOutChans + 1): ChanName.append(...) *)
ReadChanName ==
  /\ pc = "ChanName"
  /\ LET count == hdr.NumOutChans + 1
         got == WholeFields(count, hdr.LenName)
     IN  IF got < count
         THEN /\ fid' = AfterRead((got + 1) * hdr.LenName)
              /\ log' = LoggedTimes(log, "ChanName", hdr.LenName, got + 1)
              /\ hdr' = [hdr EXCEPT !.ChanName =
                           [k \in 1 .. got |-> NameText(FileChanName(file, k - 1))]]
              /\ Raise(struct_error)
         ELSE /\ fid' = AfterRead(count * hdr.LenName)
              /\ log' = LoggedTimes(log, "ChanName", hdr.LenName, count)
              /\ hdr' = [hdr EXCEPT !.ChanName =
                           [k \in 1 .. count |-> NameText(FileChanName(file, k - 1))]]
              /\ pc' = "ChanUnit"
              /\ UNCHANGED err
  /\ UNCHANGED <<file, use_buffer, tbl, ret, outcome>>

(* for iChan in range(NumOutChans + 1): ChanUnit.append(...) *)
ReadChanUnit ==
  /\ pc = "ChanUnit"
  /\ LET count == hdr.NumOutChans + 1
         got == WholeFields(count, hdr.LenName)
     IN  IF got < count
         THEN /\ fid' = AfterRead((got + 1) * hdr.LenName)
              /\ log' = LoggedTimes(log, "ChanUnit", hdr.LenName, got + 1)
              /\ hdr' = [hdr EXCEPT !.ChanUnit =
                           [k \in 1 .. got |-> UnitText(FileChanUnit(file, k - 1))]]
              /\ Raise(struct_error)
         ELSE /\ fid' = AfterRead(count * hdr.LenName)
              /\ log' = LoggedTimes(log, "ChanUnit", hdr.LenName, count)
              /\ hdr' = [hdr EXCEPT !.ChanUnit =
                           [k \in 1 .. count |-> UnitText(FileChanUnit(file, k - 1))]]
              /\ pc' = "PackedTime"
              /\ UNCHANGED err
  /\ UNCHANGED <<file, use_buffer, tbl, ret, outcome>>

(* nPts, and the packed time column of the format that has one *)
ReadPackedTime ==
  /\ pc = "PackedTime"
  /\ LET nPts == hdr.NT * hdr.NumOutChans
         nb == hdr.NT * SizeOf("int32")
     IN  IF hdr.FileID = FileFmtID_WithTime
         THEN /\ fid' = AfterRead(nb)
              /\ log' = Logged("PackedTime", "int32", hdr.NT)
              /\ IF ~Available(nb)
                 THEN /\ Raise(struct_error)
                      /\ tbl' = [tbl EXCEPT !.nPts = nPts]
                 ELSE LET PackedTime == Arr1(hdr.NT, [i \in 0 .. hdr.NT - 1 |-> I(FilePackedTime(file, i))])
                          cnt == PackedTime.shape[1]
                      IN  /\ tbl' = [tbl EXCEPT !.nPts = nPts, !.PackedTime = PackedTime]
                          /\ IF cnt < hdr.NT
                             THEN Raise(Format("Could not read entire %s file: read %d of %d time values",
                                               3, <<filename.stem, cnt, hdr.NT>>))
                             ELSE pc' = "Payload" /\ UNCHANGED err
         ELSE /\ tbl' = [tbl EXCEPT !.nPts = nPts]
              /\ pc' = "Payload"
              /\ UNCHANGED <<fid, log, err>>
  /\ UNCHANGED <<file, use_buffer, hdr, ret, outcome>>

(* the uncompressed format read as 16-bit integers too *)
PayloadType_Int16(FileID) == "int16"
(* the element type of the payload the reader asks for *)
PayloadType(FileID) ==
  IF FileID = FileFmtID_NoCompressWithoutTime THEN "float64" ELSE "int16"
(* the payload element the file holds k elements of w bytes after pos *)
StoredFrom(pos, w, k) == FileStored(file, (pos - PayloadStart(file)) \div w + k)

(* freadRowOrderTableBuffered, up to the loop *)
BufferedAlloc ==
  /\ pc = "Payload"
  /\ use_buffer
  /\ LET n == tbl.nPts
         nCols == hdr.NumOutChans
     IN  IF nCols = 0
         THEN Raise(ZeroDivisionError) /\ UNCHANGED tbl
         ELSE LET nLines == n \div nCols
                  nLinesPerBuffer == GoodBufferSize \div nCols
                  BufferSize == nCols * nLinesPerBuffer
              IN  IF BufferSize = 0
                  THEN Raise(ZeroDivisionError) /\ UNCHANGED tbl
                  ELSE /\ tbl' = [tbl EXCEPT !.n = n, !.nCols = nCols,
                                    !.nbytes = SizeOf(PayloadType(hdr.FileID)),
                                    !.BufferSize = BufferSize,
                                    !.data = zeros(nLines, nCols + nOff),
                                    !.nIntRead = 0, !.nLinesRead = 0]
                       /\ pc' = "BufferedLoop"
                       /\ UNCHANGED err
  /\ UNCHANGED <<file, use_buffer, fid, hdr, ret, outcome, log>>

(* one pass of while nIntRead < n, and the except clause *)
BufferedLoop ==
  /\ pc = "BufferedLoop"
  /\ tbl.nIntRead < tbl.n
  /\ LET nIntToRead == Min(tbl.n - tbl.nIntRead, tbl.BufferSize)
         nLinesToRead == nIntToRead \div tbl.nCols
         nb == tbl.nbytes * nIntToRead
         Buffer(i, j) == StoredFrom(fid.pos, tbl.nbytes, i * tbl.nCols + j)
         rows == tbl.nLinesRead .. tbl.nLinesRead + nLinesToRead - 1
         cols == nOff .. nOff + tbl.nCols - 1
     IN  /\ fid' = AfterRead(nb)
         /\ log' = Logged("PackedData", PayloadType(hdr.FileID), nIntToRead)
         /\ IF ~Available(nb)
            THEN /\ Raise(Format("Read only %d of %d values in file:", 2,
                                 <<tbl.nIntRead, tbl.n, filename.stem>>))
                 /\ UNCHANGED tbl
            ELSE /\ tbl' = [tbl EXCEPT
                     !.data = [@ EXCEPT !.v =
                        [ix \in DOMAIN @ |->
                           IF ix[1] \in rows /\ ix[2] \in cols
                           THEN Buffer(ix[1] - tbl.nLinesRead, ix[2] - nOff)
                           ELSE @[ix]]],
                     !.nLinesRead = @ + nLinesToRead,
                     !.nIntRead = @ + nIntToRead]
                 /\ UNCHANGED <<pc, err>>
  /\ UNCHANGED <<file, use_buffer, hdr, ret, outcome>>

(* return data, and the end of the with block *)
BufferedReturn ==
  /\ pc = "BufferedLoop"
  /\ ~(tbl.nIntRead < tbl.n)
  /\ pc' = "with_end"
  /\ UNCHANGED <<file, use_buffer, fid, hdr, tbl, err, ret, outcome, log>>

(* the whole payload in one fread, reshaped to (NT, NumOutChans) *)
ReadPackedData ==
  /\ pc = "Payload"
  /\ ~use_buffer
  /\ LET type == PayloadType(hdr.FileID)
         nb == tbl.nPts * SizeOf(type)
     IN  /\ fid' = AfterRead(nb)
         /\ log' = Logged("PackedData", type, tbl.nPts)
         /\ IF ~Available(nb)
            THEN Raise(struct_error) /\ UNCHANGED tbl
            ELSE LET PackedData == Arr1(tbl.nPts, [k \in 0 .. tbl.nPts - 1 |-> StoredFrom(fid.pos, SizeOf(type), k)])
                     cnt == PackedData.shape[1]
                 IN  IF cnt < tbl.nPts
                     THEN /\ Raise(Format("Could not read entire %s file: read %d of %d values",
                                          3, <<filename.stem, cnt, tbl.nPts>>))
                          /\ UNCHANGED tbl
                     ELSE /\ tbl' = [tbl EXCEPT !.data =
                                Arr2(hdr.NT, hdr.NumOutChans,
                                     [ix \in Idx(<<hdr.NT, hdr.NumOutChans>>) |->
                                        At1(PackedData, ix[1] * hdr.NumOutChans + ix[2])])]
                          /\ pc' = "with_end"
                          /\ UNCHANGED err
  /\ UNCHANGED <<file, use_buffer, hdr, ret, outcome>>

Raised(e) == [status |-> "raised", data |-> NoArr, info |-> NoInfo, err |-> e]

(* the file closed at the end of the block only, not when an exception leaves it *)
WithExit_OpenOnError ==
  /\ pc \in {"with_end", "unwind"}
  /\ fid' = [fid EXCEPT !.open = (pc = "unwind")]
  /\ IF pc = "unwind"
     THEN /\ pc' = "failed"
          /\ outcome' = [outcome EXCEPT ![use_buffer] = Raised(err)]
     ELSE /\ pc' = "Time"
          /\ UNCHANGED outcome
  /\ UNCHANGED <<file, use_buffer, hdr, tbl, err, ret, log>>

(* leaving the with block closes the file, whichever way it is left *)
WithExit ==
  /\ pc \in {"with_end", "unwind"}
  /\ fid' = [fid EXCEPT !.open = FALSE]
  /\ IF pc = "unwind"
     THEN /\ pc' = "failed"
          /\ outcome' = [outcome EXCEPT ![use_buffer] = Raised(err)]
     ELSE /\ pc' = "Time"
          /\ UNCHANGED outcome
  /\ UNCHANGED <<file, use_buffer, hdr, tbl, err, ret, log>>

(* the time vector with its differences and sums turned round *)
TimeVector_Reversed ==
  IF hdr.FileID = FileFmtID_WithTime
  THEN Elementwise("/", Elementwise("-", hdr.TimeOff, tbl.PackedTime), hdr.TimeScl)
  ELSE Elementwise("-", hdr.TimeOut1, Elementwise("*", hdr.TimeIncr, arange(hdr.NT)))
(* time, after the with block *)
TimeVector ==
  IF hdr.FileID = FileFmtID_WithTime
  THEN Elementwise("/", Elementwise("-", tbl.PackedTime, hdr.TimeOff), hdr.TimeScl)
  ELSE Elementwise("+", hdr.TimeOut1, Elementwise("*", hdr.TimeIncr, arange(hdr.NT)))

ComputeTime ==
  /\ pc = "Time"
  /\ tbl' = [tbl EXCEPT !.time = TimeVector]
  /\ pc' = "Scale"
  /\ UNCHANGED <<file, use_buffer, fid, hdr, err, ret, outcome, log>>

(* ColScl[iCol]: the element of a tuple, the one-element row of an array *)
ColAt(a, iCol) == IF Len(a.shape) = 1 THEN a.v[<<iCol>>] ELSE a.v[<<iCol, 0>>]
(* divided before the offset is taken off *)
ScaleColumn_DivFirst(x, scl, off) ==
  IF isnan(scl) /\ isnan(off) THEN I(0) ELSE FSub(FDiv(x, scl), off)
(* the body of for iCol in range(NumOutChans), on one element of the column *)
ScaleColumn(x, scl, off) ==
  IF isnan(scl) /\ isnan(off) THEN I(0) ELSE FDiv(FSub(x, off), scl)

(* if use_buffer: scale each column in place, then data[:,0] = time *)
ScaleBuffered ==
  /\ pc = "Scale"
  /\ use_buffer
  /\ tbl' = [tbl EXCEPT !.data = [@ EXCEPT !.v =
               [ix \in DOMAIN @ |->
                  IF ix[2] = 0 THEN At1(tbl.time, ix[1])
                  ELSE ScaleColumn(@[ix], ColAt(hdr.ColScl, ix[2] - 1),
                                   ColAt(hdr.ColOff, ix[2] - 1))]]]
  /\ pc' = "Return"
  /\ UNCHANGED <<file, use_buffer, fid, hdr, err, ret, outcome, log>>

(* the time column put behind the data *)
Concatenate_TimeLast(time, data) ==
  Arr2(data.shape[1], 1 + data.shape[2],
       [ix \in Idx(<<data.shape[1], 1 + data.shape[2]>>) |->
          IF ix[2] = data.shape[2] THEN At1(time, ix[1])
          ELSE At2(data, ix[1], ix[2])])
(* np.concatenate([time.reshape(NT, 1), data], 1) *)
Concatenate(time, data) ==
  Arr2(data.shape[1], 1 + data.shape[2],
       [ix \in Idx(<<data.shape[1], 1 + data.shape[2]>>) |->
          IF ix[2] = 0 THEN At1(time, ix[1]) ELSE At2(data, ix[1], ix[2] - 1)])

(* else: data = (data - ColOff) / ColScl, then the time column in front *)
ScaleUnbuffered ==
  /\ pc = "Scale"
  /\ ~use_buffer
  /\ IF ~Broadcastable(tbl.data, hdr.ColOff)
     THEN /\ err' = ValueError
          /\ pc' = "failed"
          /\ outcome' = [outcome EXCEPT ![use_buffer] = Raised(ValueError)]
          /\ UNCHANGED tbl
     ELSE LET scaled == Elementwise("/", Elementwise("-", tbl.data, hdr.ColOff),
                                    hdr.ColScl)
          IN  IF scaled.shape[1] # hdr.NT
              THEN /\ err' = ValueError
                   /\ pc' = "failed"
                   /\ outcome' = [outcome EXCEPT ![use_buffer] = Raised(ValueError)]
                   /\ UNCHANGED tbl
              ELSE /\ tbl' = [tbl EXCEPT !.data = Concatenate(tbl.time, scaled)]
                   /\ pc' = "Return"
                   /\ UNCHANGED <<err, outcome>>
  /\ UNCHANGED <<file, use_buffer, fid, hdr, ret, log>>

(* os.path.splitext(os.path.basename(filename))[0] *)
InfoName(path) == path.stem

(* info, and return data, info *)
Return ==
  /\ pc = "Return"
  /\ LET info == [name |-> InfoName(filename),
                  description |-> hdr.DescStr,
                  fileID |-> hdr.FileID,
                  attribute_names |-> hdr.ChanName,
                  attribute_units |-> hdr.ChanUnit]
     IN  /\ ret' = [data |-> tbl.data, info |-> info]
         /\ outcome' = [outcome EXCEPT ![use_buffer] =
               [status |-> "returned", data |-> tbl.data, info |-> info, err |-> NoErr]]
  /\ pc' = "returned"
  /\ UNCHANGED <<file, use_buffer, fid, hdr, tbl, err, log>>

Next ==
  \/ \E b \in BOOLEAN : Call(b)
  \/ ReadFileID
  \/ ReadLenName
  \/ ReadCounts
  \/ ReadTimeHdr
  \/ ReadColScl
  \/ ReadDesc
  \/ ReadChanName
  \/ ReadChanUnit
  \/ ReadPackedTime
  \/ BufferedAlloc
  \/ BufferedLoop
  \/ BufferedReturn
  \/ ReadPackedData
  \/ WithExit
  \/ ComputeTime
  \/ ScaleBuffered
  \/ ScaleUnbuffered
  \/ Return

Spec == Init /\ [][Next]_vars

(* ======================================================================= *)
(* Properties                                                              *)
(* ======================================================================= *)
(* what the file holds, read off the file itself *)
TagValue ==
  file.tag[1] + 256 * file.tag[2] - (IF file.tag[2] >= 128 THEN 65536 ELSE 0)
WellFormed == file.cut = 0 /\ TagValue \in 1 .. 4
Chans == 0 .. file.nChan - 1
Steps == 0 .. file.nSteps - 1
HdrA == TimeHdrs[file.timeSel][1]
HdrB == TimeHdrs[file.timeSel][2]
Scl(c) == IF TagValue = 3 THEN I(1) ELSE FileColScl(file, c)
Off(c) == IF TagValue = 3 THEN I(0) ELSE FileColOff(file, c)
Sentinel(c) == isnan(Scl(c)) /\ isnan(Off(c))
Called(b) == outcome[b].status # "none"
Cell(d, r, c) == d.v[<<r, c>>]

(* C1: for a well-formed file, the call with use_buffer=True and the call  *)
(* with use_buffer=False end the same way: both return, with the same      *)
(* table and the same metadata, or both raise (counts of one and more).    *)
C1_BufferedEqualsUnbuffered ==
  (WellFormed /\ file.nChan >= 1 /\ file.nSteps >= 1
   /\ Called(TRUE) /\ Called(FALSE)) =>
    /\ outcome[TRUE].status = outcome[FALSE].status
    /\ outcome[TRUE].data = outcome[FALSE].data
    /\ outcome[TRUE].info = outcome[FALSE].info

(* C2: in every returned table, with either use_buffer, the column of a    *)
(* channel whose scale and offset are both not-a-number is all zero, and   *)
(* the column of a channel with only one of them not-a-number is not.      *)
C2_SentinelColumnZero ==
  pc = "returned" =>
    \A c \in Chans : \A r \in Steps :
      /\ Sentinel(c) => Cell(ret.data, r, c + 1) = I(0)
      /\ (~Sentinel(c) /\ (isnan(Scl(c)) \/ isnan(Off(c)))) =>
            Cell(ret.data, r, c + 1) # I(0)

(* the payload, or the packed time column, is cut short *)
PayloadCut == PayloadBytes(file) > 0 /\ FileSize(file) < FullBytes(file)
PackedTimeCut ==
  TagValue = 1 /\ file.nSteps > 0
  /\ FileSize(file) < HeaderBytes(file) + 4 * file.nSteps
Rows(d) == d.shape[1]

(* C3: a call on a file whose payload or packed time column is cut short   *)
(* (by less than an element too) raises and returns no table; a returned   *)
(* table has exactly step_count rows; with either use_buffer.              *)
C3_TruncationRaises ==
  /\ \A b \in BOOLEAN :
       (Called(b) /\ (PayloadCut \/ PackedTimeCut)) =>
          outcome[b].status = "raised" /\ outcome[b].data = NoArr
  /\ (PayloadCut \/ PackedTimeCut) => pc \notin {"Time", "Scale", "Return", "returned"}
  /\ pc = "returned" =>
       Len(ret.data.shape) = 2 /\ Rows(ret.data) = file.nSteps

C3_Witness ==
  /\ file.cut = 1 /\ PayloadCut /\ TagValue = 2
  /\ outcome[TRUE].status = "raised"
  /\ outcome[FALSE].status = "raised"

(* the diagnostics that report the values read and the values expected *)
TruncationDiagnostic(e) ==
  /\ e.type = "Exception"
  /\ e.text \in {"Read only %d of %d values in file:",
                 "Could not read entire %s file: read %d of %d values",
                 "Could not read entire %s file: read %d of %d time values"}

(* C4: when the header is whole and the packed time column or the payload  *)
(* is cut short, the exception raised is the diagnostic reporting read     *)
(* versus expected values, on the buffered and the unbuffered path.        *)
C4_TruncationDiagnostic ==
  \A b \in BOOLEAN :
    (/\ outcome[b].status = "raised"
     /\ TagValue \in 1 .. 4
     /\ FileSize(file) >= HeaderBytes(file)
     /\ (PayloadCut \/ PackedTimeCut)) =>
       TruncationDiagnostic(outcome[b].err)

(* C5: a file whose first two bytes decode to a value outside 1..4 makes   *)
(* the call raise the unsupported-format error, with exactly 2 bytes       *)
(* consumed and no other field read.                                       *)
C5_UnsupportedFormat ==
  (TagValue \notin 1 .. 4 /\ FileSize(file) >= 2) =>
    /\ pc \in {"idle", "FileID", "unwind", "failed"}
    /\ fid.pos <= 2
    /\ pc \in {"unwind", "failed"} =>
         /\ err.type = "Exception"
         /\ err.text = "FileID not supported {}. Is it a FAST binary file?"
         /\ err.args = <<TagValue>>
         /\ fid.pos = 2
         /\ log = << [field |-> "FileID", type |-> "int16", n |-> 1] >>
         /\ ret = NoRet

C5_Witness ==
  /\ pc = "failed"
  /\ file.tag = <<1, 1>>
  /\ fid.pos = 2
  /\ outcome[use_buffer].err.args = <<257>>

(* column 0 of the returned table never decreases *)
TimeNonDecreasing(d) ==
  \A i \in 0 .. file.nSteps - 2 : FLe(Cell(d, i, 0), Cell(d, i + 1, 0))
Finite(x) == x[2] > 0
(* the file's time data is itself in order *)
TimeOrdered ==
  /\ Finite(HdrA) /\ Finite(HdrB)
  /\ IF TagValue = 1
     THEN /\ HdrA[1] > 0
          /\ \A i \in 0 .. file.nSteps - 2 :
               FilePackedTime(file, i) <= FilePackedTime(file, i + 1)
     ELSE HdrB[1] >= 0

(* C6 as stated: column 0 of every returned table is non-decreasing, for   *)
(* any time start and increment and any time scale, offset and packed      *)
(* time sequence.                                                          *)
C6_TimeNonDecreasing ==
  pc = "returned" => TimeNonDecreasing(ret.data)

(* C6: column 0 of a returned table is non-decreasing when the header's    *)
(* start and increment are finite and the increment is not negative        *)
(* (formats 2, 3, 4), or when time scale and offset are finite, the scale  *)
(* is positive and the packed time sequence is non-decreasing (format 1).  *)
C6_TimeNonDecreasingWhenOrdered ==
  (pc = "returned" /\ TimeOrdered) => TimeNonDecreasing(ret.data)

C6_Witness ==
  /\ pc = "returned" /\ TimeOrdered
  /\ file.nSteps = MaxSteps
  /\ \E t \in {1, 2} :
       /\ TagValue = t
       /\ Cell(ret.data, 0, 0) # Cell(ret.data, file.nSteps - 1, 0)

(* C7: in every returned table, with either use_buffer, row i of column 0  *)
(* is (packed_time[i] - time_offset) / time_scale for format 1 and         *)
(* start + increment * i for formats 2, 3, 4.                              *)
C7_TimeColumn ==
  pc = "returned" =>
    \A i \in Steps :
      Cell(ret.data, i, 0) =
        IF TagValue = 1
        THEN FDiv(FSub(I(FilePackedTime(file, i)), HdrB), HdrA)
        ELSE FAdd(HdrA, FMul(HdrB, I(i)))

(* start 0, increment 0.0125: 0, 0.0125, 0.025 on both paths *)
C7_Witness ==
  /\ TagValue = 2 /\ file.timeSel = 1 /\ file.nSteps = 3
  /\ \A b \in BOOLEAN :
       /\ outcome[b].status = "returned"
       /\ Cell(outcome[b].data, 0, 0) = I(0)
       /\ Cell(outcome[b].data, 1, 0) = R(1, 80)
       /\ Cell(outcome[b].data, 2, 0) = R(1, 40)

(* C8: in every returned table, with either use_buffer, for every row r    *)
(* and every channel c whose scale and offset are not both not-a-number,   *)
(* cell (r, c+1) is (stored - offset[c]) / scale[c] of the payload element *)
(* at flat index r * channel_count + c; for format 3 it is that element.   *)
C8_Dequantized ==
  pc = "returned" =>
    \A r \in Steps : \A c \in Chans :
      LET stored == FileStored(file, r * file.nChan + c)
      IN  /\ ~Sentinel(c) =>
               Cell(ret.data, r, c + 1) = FDiv(FSub(stored, Off(c)), Scl(c))
          /\ TagValue = 3 => Cell(ret.data, r, c + 1) = stored

(* stored 1000, scale 2, offset 100 gives 450, on both paths *)
C8_Witness ==
  /\ TagValue = 1 /\ file.nChan = 1 /\ file.nSteps >= 2 /\ file.chanSeed = 0
  /\ \A b \in BOOLEAN :
       /\ outcome[b].status = "returned"
       /\ Cell(outcome[b].data, 0, 1) = I(450)

(* the size of the file by the table of its format *)
TableBytes ==
  LET w == IF TagValue = 4 THEN file.lenName ELSE 10
  IN  2 + (IF TagValue = 4 THEN 2 ELSE 0) + 4 + 4 + 8 + 8
      + (IF TagValue = 3 THEN 0 ELSE 4 * file.nChan + 4 * file.nChan)
      + 4 + Len(DescPool[file.descSel])
      + w * (file.nChan + 1) + w * (file.nChan + 1)
      + (IF TagValue = 1 THEN 4 * file.nSteps ELSE 0)
      + file.nSteps * file.nChan * (IF TagValue = 3 THEN 8 ELSE 2)
Entries(name) == {k \in 1 .. Len(log) : log[k].field = name}
RECURSIVE SumBytes(_)
SumBytes(S) ==
  IF S = {} THEN 0
  ELSE LET k == CHOOSE x \in S : TRUE
       IN  SizeOf(log[k].type) * log[k].n + SumBytes(S \ {k})
RECURSIVE SumCount(_)
SumCount(S) ==
  IF S = {} THEN 0
  ELSE LET k == CHOOSE x \in S : TRUE IN log[k].n + SumCount(S \ {k})
BytesLogged == SumBytes(1 .. Len(log))

(* C9: in a call that returns, with either use_buffer, the name length is  *)
(* read iff the format is 4 (and is 10 otherwise), the two float32 arrays  *)
(* are read iff the format is not 3, the int32 packed time column is read  *)
(* iff the format is 1, the payload is read as int16 (formats 1, 2, 4) or  *)
(* float64 (format 3), and the bytes consumed are those of the format's    *)
(* table.                                                                  *)
C9_FieldsByFormat ==
  pc = "returned" =>
    /\ fid.pos = TableBytes
    /\ BytesLogged = TableBytes
    /\ (Entries("LenName") # {}) <=> (TagValue = 4)
    /\ \A k \in Entries("LenName") : log[k].type = "int16" /\ log[k].n = 1
    /\ TagValue # 4 => hdr.LenName = 10
    /\ \A name \in {"ColScl", "ColOff"} :
         /\ (Entries(name) # {}) <=> (TagValue # 3)
         /\ \A k \in Entries(name) :
              log[k].type = "float32" /\ log[k].n = file.nChan
    /\ (Entries("PackedTime") # {}) <=> (TagValue = 1)
    /\ \A k \in Entries("PackedTime") :
         log[k].type = "int32" /\ log[k].n = file.nSteps
    /\ \A k \in Entries("PackedData") :
         log[k].type = (IF TagValue = 3 THEN "float64" ELSE "int16")
    /\ SumCount(Entries("PackedData")) = file.nSteps * file.nChan

C9_Witness ==
  /\ pc = "returned" /\ ~use_buffer
  /\ outcome[TRUE].status = "returned"
  /\ TagValue = 4 /\ file.lenName = 5 /\ file.nChan = MaxChans
  /\ fid.pos = TableBytes

(* a string less the whitespace around it *)
Trimmed(s) ==
  LET inked == {k \in 1 .. Len(s) : ~IsSpace(s[k])}
  IN  IF inked = {} THEN <<>>
      ELSE LET lo == CHOOSE k \in inked : \A j \in inked : k <= j
               hi == CHOOSE k \in inked : \A j \in inked : k >= j
           IN  [j \in 1 .. hi - lo + 1 |-> s[lo + j - 1]]
(* a string less its first and its last character *)
DropEnds(t) == [j \in 1 .. (IF Len(t) >= 2 THEN Len(t) - 2 ELSE 0) |-> t[j + 1]]

(* C10: in the metadata of every returned call, attribute_names and        *)
(* attribute_units have channel_count + 1 entries each; entry k of the     *)
(* names is the k-th name field less the whitespace around it, and entry k *)
(* of the units is the k-th unit field less the whitespace around it and   *)
(* then less its first and its last character.                             *)
C10_NamesAndUnits ==
  pc = "returned" =>
    /\ Len(ret.info.attribute_names) = file.nChan + 1
    /\ Len(ret.info.attribute_units) = file.nChan + 1
    /\ \A k \in 1 .. file.nChan + 1 :
         /\ ret.info.attribute_names[k] = Trimmed(FileChanName(file, k - 1))
         /\ ret.info.attribute_units[k]
              = DropEnds(Trimmed(FileChanUnit(file, k - 1)))

(* unit fields "(s)", " (m)", "m" give "s", "m", "" *)
C10_Witness ==
  /\ pc = "returned"
  /\ TagValue = 4 /\ file.lenName = 5 /\ file.nChan = 2 /\ file.unitSeed = 0
  /\ file.nameSeed = 1
  /\ ret.info.attribute_units = << <<115>>, <<109>>, <<>> >>
  /\ ret.info.attribute_names = << <<109>>, <<>>, <<0, 97>> >>

(* C11: however a call ends once the file was opened (it returns, the      *)
(* format is unsupported, the header, the packed time column or the        *)
(* payload is cut short, on either path), the file is closed when it ends, *)
(* and a call that fails returns no table and no metadata.                 *)
C11_ClosedOnEveryExit ==
  /\ pc \in {"Time", "Scale", "Return", "returned", "failed"} => ~fid.open
  /\ pc \in {"unwind", "failed"} => ret = NoRet
  /\ \A b \in BOOLEAN :
       outcome[b].status = "raised" =>
         outcome[b].data = NoArr /\ outcome[b].info = NoInfo

(* a payload cut short: both paths have raised and the file is closed *)
C11_Witness ==
  /\ pc = "failed" /\ ~fid.open /\ ret = NoRet
  /\ PayloadCut /\ FileSize(file) >= PayloadStart(file)
  /\ outcome[TRUE].err.type = "TypeError"
  /\ outcome[FALSE].err.type = "struct.error"

(* the state between two passes of the loop of freadRowOrderTableBuffered *)
NextChunk == Min(tbl.n - tbl.nIntRead, tbl.BufferSize)

(* the counters agree, the chunk to come is a whole number of rows of at  *)
(* most BufferSize values, the rows read hold the payload in file order,  *)
(* and the rows to come and column 0 are as allocated                     *)
LoopInvariant ==
  /\ tbl.data.shape = <<file.nSteps, file.nChan + nOff>>
  /\ tbl.n = file.nSteps * file.nChan
  /\ tbl.nIntRead = tbl.nLinesRead * tbl.nCols
  /\ tbl.nIntRead <= tbl.n
  /\ tbl.nIntRead < tbl.n =>
       /\ NextChunk > 0
       /\ NextChunk <= tbl.BufferSize
       /\ NextChunk % tbl.nCols = 0
  /\ \A r \in Steps :
       /\ Cell(tbl.data, r, 0) = I(0)
       /\ \A c \in Chans :
            Cell(tbl.data, r, c + nOff) =
              IF r < tbl.nLinesRead
              THEN FileStored(file, r * file.nChan + c)
              ELSE I(0)

LoopExit ==
  /\ tbl.nIntRead = file.nSteps * file.nChan
  /\ tbl.nLinesRead = file.nSteps

(* C12: for a complete file of any step count and any channel count, zero *)
(* included, the buffered read ends without an error; between passes      *)
(* nIntRead = nLinesRead * nCols, the next chunk is a whole number of     *)
(* rows and at most BufferSize values, rows already written keep the      *)
(* values of the file; and on exit nIntRead = step_count * channel_count  *)
(* and nLinesRead = step_count, columns 1..channel_count filled in file   *)
(* order and column 0 left for the time.                                  *)
C12_ChunkedLoop ==
  (WellFormed /\ use_buffer) =>
    /\ pc \notin {"unwind", "failed"}
    /\ pc = "BufferedLoop" => LoopInvariant
    /\ pc = "with_end" => LoopInvariant /\ LoopExit

(* the same for files of one channel and more *)
C12_ChunkedLoopOfChannels ==
  file.nChan >= 1 => C12_ChunkedLoop

====
